---------------------------- MODULE Spec2Model ----------------------------
(***************************************************************************)
(* A model of the ESP32 I2C master driver, drivers/i2c/i2c_esp32.c:        *)
(* i2c_esp32_transfer and the read / write message engines under it,       *)
(* i2c_esp32_transmit, the interrupt handler i2c_esp32_isr, the bus        *)
(* recovery i2c_hw_fsm_reset and i2c_esp32_recover, and the two kernel     *)
(* semaphores of struct i2c_esp32_data.                                    *)
(*                                                                         *)
(* The peripheral behind the HAL functions is the environment: a chunk     *)
(* that was started is in flight until the peripheral raises one interrupt *)
(* event for it or until it is reset; each event raised leads to one       *)
(* invocation of the handler.                                              *)
(***************************************************************************)
EXTENDS Integers, Sequences, FiniteSets, TLC

\* The FIFO depth of the SoC (32 on the ESP32), scaled down: the engines
\* only compare lengths with it.
SOC_I2C_FIFO_LEN == 2

\* The callers make at most this many calls in all.
MaxCalls == 2

\* The callers (threads) of the driver API.
Callers == {1, 2}

\* enum i2c_status_t
I2C_STATUS == {"READ", "WRITE", "IDLE", "ACK_ERROR", "DONE", "TIMEOUT"}

\* i2c_intr_event_t as the handler tells the events apart; "ERR" is the
\* handler's default, "END_DET" the event it has no branch for.
HwEvents == {"NACK", "TOUT", "ARBIT_LOST", "TRANS_DONE", "END_DET"}

\* The bits of i2c_msg.flags the driver looks at, as a set of names:
\* "READ" is I2C_MSG_READ (absent: I2C_MSG_WRITE).
MsgFlags == {"READ", "STOP", "RESTART"}

VARIABLES
    \* struct i2c_esp32_data
    status, cmd_idx, cmd_sem, transfer_sem, dev_config,
    \* struct i2c_esp32_config (the bitrate of the devicetree) and what the
    \* SoC of the build supports; neither changes
    config, soc,
    \* the peripheral behind the HAL
    hw,
    \* each caller: where it is, its message list (the caller's memory),
    \* and the locals of i2c_esp32_transfer
    pc, op, msgs, idx, addr, ret, rd_filled, calls,
    \* history, per call: the list as submitted (kept until the lock is
    \* taken), the list as the validation passed it on, the messages
    \* dispatched, whether the call touched the controller, the bytes moved
    \* and the commands queued for the current message, the outcome of the
    \* caller's previous call, whether every chunk so far was answered
    \* TRANS_DONE
    g_orig, g_list, g_disp, g_touched, g_xfer, g_cmds, g_prev, g_clean,
    \* history, per call: the address as submitted and whether the address
    \* was cut to 10 bits
    g_addr,
    \* history: how the message run last on the controller ended
    g_seg,
    \* history of the chunk started last: who started it, the event the
    \* peripheral raised for it, the event served when its wait returned,
    \* whether its wait expired, whether the FSM was reset since it was
    \* started
    last

drvVars == <<status, cmd_idx, cmd_sem, transfer_sem, dev_config, config, soc>>
thrVars == <<pc, op, msgs, idx, addr, ret, rd_filled, calls>>
histVars == <<g_orig, g_list, g_disp, g_touched, g_xfer, g_cmds, g_prev, g_clean,
              g_addr, g_seg>>
vars == <<drvVars, hw, thrVars, histVars, last>>

---------------------------------------------------------------------------
\* Messages and the inputs of the model

Msg(f, n) == [flags |-> f, len |-> n, buf |-> 0]

\* Lengths around the FIFO depth.
Lens == {0, 1, SOC_I2C_FIFO_LEN, SOC_I2C_FIFO_LEN + 1, SOC_I2C_FIFO_LEN + 2}

\* Lengths of the first message of a list of two.
ShortLens == {1, SOC_I2C_FIFO_LEN + 1}

AllFlags == SUBSET MsgFlags

Lists1 == {<<Msg(f, n)>> : f \in AllFlags, n \in Lens}
Lists2 == {<<Msg(f1, n1), Msg(f2, 1)>> :
              f1 \in AllFlags, f2 \in AllFlags, n1 \in ShortLens}
Lists3 == {<<Msg(f1, 1), Msg(f2, 1), Msg(f3, 1)>> :
              f1 \in AllFlags, f2 \in AllFlags, f3 \in AllFlags}

\* What a single caller submits first.
SeqLists == {<<>>} \cup Lists1 \cup Lists2 \cup Lists3

\* What each of two concurrent callers submits.
ConcLists == {<<Msg({}, SOC_I2C_FIFO_LEN + 1)>>,
              <<Msg({"READ"}, SOC_I2C_FIFO_LEN + 1)>>,
              <<Msg({"STOP"}, 1), Msg({"READ"}, 1)>>,
              <<Msg({}, 1), Msg({"READ", "RESTART"}, 1)>>}

\* The target addresses submitted (uint16_t).
Addrs == {933}

\* The target addresses submitted next to a thread that configures.
WideAddrs == {0, 127, 128, 933, 1023, 1024, 65535}

\* The arguments of i2c_esp32_configure: master with 7-bit or 10-bit
\* addresses, or not a master.
DevConfigs == {{"MASTER"}, {"MASTER", "ADDR_10_BITS"}, {"ADDR_10_BITS"}}

\* The bitrates of the devicetree and the SoCs of the build.
Configs == {[bitrate |-> b] : b \in {0, 40000, 100000, 1000000, 3000000, 5000000}}
Socs == {[clks |-> k, hw_fsm_rst |-> r] :
            k \in {<<"APB", "REF_TICK">>, <<"XTAL", "RTC">>,
                   <<"APB", "XTAL", "RTC", "REF_TICK">>},
            r \in BOOLEAN}

---------------------------------------------------------------------------
\* i2c_esp32_transfer: the validation of the message list

SetFlag(m, f) == [m EXCEPT !.flags = @ \cup {f}]

\* flags & I2C_MSG_RW_MASK
RW(m) == m.flags \cap {"READ"}

\* ValidateFrom without the check of the restart flag on a change of
\* direction.
RECURSIVE ValidateFrom_NoRestartCheck(_, _)
ValidateFrom_NoRestartCheck(ms, k) ==
    IF k > Len(ms) THEN [ret |-> "0", msgs |-> ms]
    ELSE IF k < Len(ms)
    THEN IF "STOP" \in ms[k].flags
         THEN [ret |-> "-EINVAL", msgs |-> ms]
         ELSE ValidateFrom_NoRestartCheck(ms, k + 1)
    ELSE ValidateFrom_NoRestartCheck([ms EXCEPT ![k] = SetFlag(@, "STOP")], k + 1)

\* The loop over k = 1 .. num_msgs from iteration k on, current = ms[k]:
\* the return value and the list as the loop leaves it.
RECURSIVE ValidateFrom(_, _)
ValidateFrom(ms, k) ==
    IF k > Len(ms) THEN [ret |-> "0", msgs |-> ms]
    ELSE IF k < Len(ms)
    THEN IF RW(ms[k]) # RW(ms[k + 1]) /\ "RESTART" \notin ms[k + 1].flags
         THEN [ret |-> "-EINVAL", msgs |-> ms]
         ELSE IF "STOP" \in ms[k].flags
         THEN [ret |-> "-EINVAL", msgs |-> ms]
         ELSE ValidateFrom(ms, k + 1)
    ELSE ValidateFrom([ms EXCEPT ![k] = SetFlag(@, "STOP")], k + 1)

\* The validation without the RESTART on the first message.
Validate_NoRestart(ms) == ValidateFrom(ms, 1)

\* The restart flag is added to the first message, then the loop runs.
Validate(ms) == ValidateFrom([ms EXCEPT ![1] = SetFlag(@, "RESTART")], 1)

---------------------------------------------------------------------------
\* Kernel semaphores (k_sem with limit 1)

\* A take that never blocks.
k_sem_available_Always(count) == TRUE

\* k_sem_take can return 0: the count is not zero.
k_sem_available(count) == count > 0

k_sem_taken(count) == count - 1

\* k_sem_give: the count goes up to the limit of 1.
k_sem_given(count) == IF count < 1 THEN count + 1 ELSE count

---------------------------------------------------------------------------
\* The peripheral

\* Number of APB cycles filtered by default.
I2C_FILTER_CYC_NUM_DEF == 7

\* The highest bus frequency with each clock source.
I2C_CLK_LIMIT_REF_TICK == 50000
I2C_CLK_LIMIT_APB == 4000000
I2C_CLK_LIMIT_RTC == 1000000
I2C_CLK_LIMIT_XTAL == 2000000

\* i2c_clk_alloc, by the name of the clock source.
i2c_clk_alloc(clk) ==
    CASE clk = "APB" -> I2C_CLK_LIMIT_APB
      [] clk = "XTAL" -> I2C_CLK_LIMIT_XTAL
      [] clk = "RTC" -> I2C_CLK_LIMIT_RTC
      [] clk = "REF_TICK" -> I2C_CLK_LIMIT_REF_TICK

\* The loop of i2c_get_clk_src from the k-th clock source of the SoC on, in
\* the order of i2c_sclk_t.
RECURSIVE clk_src_from(_, _)
clk_src_from(clk_freq, k) ==
    IF k > Len(soc.clks) THEN "I2C_SCLK_MAX"
    ELSE IF clk_freq <= i2c_clk_alloc(soc.clks[k]) THEN soc.clks[k]
    ELSE clk_src_from(clk_freq, k + 1)

i2c_get_clk_src(clk_freq) == clk_src_from(clk_freq, 1)

\* The timing registers of the peripheral after its registers were reset,
\* and as i2c_hal_set_bus_timing programs them for a bus frequency and a
\* clock source.
TimingReset == [scl |-> <<"reset">>, start |-> <<"reset">>, stop |-> <<"reset">>,
                sda |-> <<"reset">>, tout |-> <<"reset">>, filter |-> <<"reset">>]

set_bus_timing(t, freq, clk) ==
    [t EXCEPT !.scl = <<"scl", freq, clk>>, !.start = <<"start", freq, clk>>,
              !.stop = <<"stop", freq, clk>>, !.sda = <<"sda", freq, clk>>,
              !.tout = <<"tout", freq, clk>>]

\* i2c_hal_master_init: the controller is put into master mode and its
\* FIFOs are reset.
master_init(h) == [h EXCEPT !.txfifo = <<>>]

\* i2c_esp32_configure once the mode was accepted: what it returns, and
\* what it does to the peripheral: no bus timing without a bitrate.
configure_result == IF config.bitrate = 0 THEN "-ENOTSUP" ELSE "0"

configured(h) ==
    LET h1 == [master_init(h) EXCEPT !.timing.filter = <<"filter", I2C_FILTER_CYC_NUM_DEF>>]
    IN IF config.bitrate = 0 THEN h1
       ELSE [h1 EXCEPT !.timing = set_bus_timing(@, config.bitrate,
                                                 i2c_get_clk_src(config.bitrate))]

\* The peripheral after i2c_esp32_init, which ends with i2c_esp32_configure.
\* resets (the parity of the number of FSM resets so far) and starts (the
\* number of starts since the FIFOs were last reset for a message) are
\* history.
HwInit == configured([cmdq |-> <<>>, txfifo |-> <<>>, irq |-> "none",
                      inflight |-> FALSE, bus_busy |-> FALSE,
                      timing |-> TimingReset, resets |-> 0, starts |-> 0])

\* The chunk started last: who started it, the event the peripheral raised
\* for it, the event the handler had served when the wait returned, whether
\* the wait ran out, and whether the FSM was reset since.
NoChunk == [by |-> 0, evt |-> "none", seen |-> "none", expired |-> FALSE,
            reset |-> FALSE]

\* The command registers after a command is written at index i (from 0):
\* the peripheral runs the queue from index 0 to the first END or STOP, so
\* what an earlier chunk left behind index i is not kept.
write_cmd_reg(q, i, cmd) == SubSeq(q, 1, i) \o <<cmd>>

Cmd(o, en, val, n) == [op_code |-> o, ack_en |-> en, ack_val |-> val, byte_num |-> n]

\* offsets b, b + 1, ..., b + n - 1 of a message buffer
Bytes(b, n) == [i \in 1..n |-> [kind |-> "data", at |-> b + i - 1]]

\* A reset that leaves the peripheral as it is.
fsm_reset_Nothing(h) == h

\* The timing registers written back without the timeout value.
restored_timing_NoTout(t) ==
    IF soc.hw_fsm_rst THEN t
    ELSE [TimingReset EXCEPT !.scl = t.scl, !.start = t.start, !.stop = t.stop,
                             !.sda = t.sda, !.filter = t.filter]

\* What i2c_hw_fsm_reset does to the timing registers: with a hardware FSM
\* reset nothing; without, the registers are read, the clock of the
\* peripheral is switched off and on, and the values read are written back.
restored_timing(t) ==
    IF soc.hw_fsm_rst THEN t
    ELSE LET scl == t.scl
             start == t.start
             stop == t.stop
             sda == t.sda
             timeout == t.tout
             filter_cfg == t.filter
         IN [TimingReset EXCEPT !.scl = scl, !.start = start, !.stop = stop,
                                !.sda = sda, !.tout = timeout, !.filter = filter_cfg]

\* i2c_hw_fsm_reset as the peripheral sees it: the clock is cycled, the bus
\* is cleared with a STOP, the master is initialised again and every
\* interrupt is disabled and cleared.
fsm_reset(h) ==
    [h EXCEPT !.irq = "none", !.inflight = FALSE, !.bus_busy = FALSE,
              !.txfifo = <<>>, !.timing = restored_timing(@),
              !.resets = 1 - @]

\* i2c_esp32_reset_fifo, then i2c_hal_disable_intr_mask and
\* i2c_hal_clr_intsts_mask
reset_fifo_clr_intr(h) == [h EXCEPT !.txfifo = <<>>, !.irq = "none", !.starts = 0]

\* i2c_esp32_write_addr: a RESTART command, the address byte(s) in the
\* transmit FIFO, a WRITE command for them. The state is the command index,
\* the peripheral and the commands queued for the message.
write_addr(st, a, cfg) ==
    LET ten == "ADDR_10_BITS" \in cfg
        lo == [kind |-> "addr", at |-> a % 256]
        hi == [kind |-> "addr", at |-> (a \div 256) % 256]
        addr_len == IF ten THEN 2 ELSE 1
        c1 == Cmd("RESTART", FALSE, 0, 0)
        c2 == Cmd("WRITE", TRUE, 0, addr_len)
    IN [idx |-> st.idx + 2,
        hw |-> [st.hw EXCEPT
                  !.cmdq = write_cmd_reg(write_cmd_reg(@, st.idx, c1), st.idx + 1, c2),
                  !.txfifo = @ \o (IF ten THEN <<lo, hi>> ELSE <<lo>>)],
        cmds |-> st.cmds \o <<c1, c2>>]

\* Queue a sequence of commands from the command index on.
RECURSIVE write_cmds(_, _)
write_cmds(st, cs) ==
    IF cs = <<>> THEN st
    ELSE write_cmds([st EXCEPT !.idx = @ + 1,
                               !.hw.cmdq = write_cmd_reg(@, st.idx, Head(cs)),
                               !.cmds = Append(@, Head(cs))],
                    Tail(cs))

\* i2c_hal_enable_master_tx_it / _rx_it (the interrupt status is cleared
\* and the interrupts are enabled), then, in i2c_esp32_transmit,
\* i2c_hal_update_config and i2c_hal_trans_start.
trans_start(h) ==
    [h EXCEPT !.irq = "none", !.inflight = TRUE, !.bus_busy = TRUE, !.starts = @ + 1]

\* No reset when the handler recorded a timeout.
transmit_resets_Never(s) == FALSE

\* i2c_esp32_transmit after the wait returned 0: whether it resets the FSM.
transmit_resets(s) == s = "TIMEOUT"

\* i2c_esp32_transmit after the wait returned 0: the value it returns.
transmit_result(s) ==
    IF s = "TIMEOUT" THEN "-ETIMEDOUT"
    ELSE IF s = "ACK_ERROR" THEN "-EFAULT"
    ELSE "0"

\* i2c_esp32_isr: the status for the event it read.
isr_status(s, evt) ==
    IF evt = "NACK" THEN "ACK_ERROR"
    ELSE IF evt = "TOUT" THEN "TIMEOUT"
    ELSE IF evt = "ARBIT_LOST" THEN "TIMEOUT"
    ELSE IF evt = "TRANS_DONE" THEN "DONE"
    ELSE s

\* The chunk without the count of the last byte in rd_filled.
read_chunk_NoCount(n) ==
    LET rd0 == IF n > SOC_I2C_FIFO_LEN THEN SOC_I2C_FIFO_LEN ELSE n - 1
        len1 == n - rd0
        ack == IF rd0 > 0 THEN <<Cmd("READ", FALSE, 0, rd0)>> ELSE <<>>
        nack == IF len1 = 1 THEN <<Cmd("READ", FALSE, 1, 1)>> ELSE <<>>
        len2 == IF len1 = 1 THEN 0 ELSE len1
        stop == IF len2 = 0 THEN <<Cmd("STOP", FALSE, 0, 0)>> ELSE <<>>
    IN [len |-> len2, rd_filled |-> rd0,
        cmds |-> ack \o nack \o stop \o <<Cmd("END", FALSE, 0, 0)>>]

\* The chunk that reads all that fits into the FIFO with one command.
read_chunk_NoSplit(n) ==
    LET rd0 == IF n > SOC_I2C_FIFO_LEN THEN SOC_I2C_FIFO_LEN ELSE n
        len1 == n - rd0
        ack == IF rd0 > 0 THEN <<Cmd("READ", FALSE, 0, rd0)>> ELSE <<>>
        stop == IF len1 = 0 THEN <<Cmd("STOP", FALSE, 0, 0)>> ELSE <<>>
    IN [len |-> len1, rd_filled |-> rd0,
        cmds |-> ack \o stop \o <<Cmd("END", FALSE, 0, 0)>>]

\* The commands of one chunk of a read message of remaining length n > 0:
\* what is left of the length, rd_filled and the commands, the END included.
read_chunk(n) ==
    LET rd0 == IF n > SOC_I2C_FIFO_LEN THEN SOC_I2C_FIFO_LEN ELSE n - 1
        len1 == n - rd0
        ack == IF rd0 > 0 THEN <<Cmd("READ", FALSE, 0, rd0)>> ELSE <<>>
        nack == IF len1 = 1 THEN <<Cmd("READ", FALSE, 1, 1)>> ELSE <<>>
        len2 == IF len1 = 1 THEN 0 ELSE len1
        rd == IF len1 = 1 THEN rd0 + 1 ELSE rd0
        stop == IF len2 = 0 THEN <<Cmd("STOP", FALSE, 0, 0)>> ELSE <<>>
    IN [len |-> len2, rd_filled |-> rd,
        cmds |-> ack \o nack \o stop \o <<Cmd("END", FALSE, 0, 0)>>]

\* The commands of one chunk of a write message of remaining length n.
write_chunk(n, flags) ==
    LET wr == IF n > SOC_I2C_FIFO_LEN THEN SOC_I2C_FIFO_LEN ELSE n
        len1 == n - wr
        data == IF wr > 0 THEN <<Cmd("WRITE", TRUE, 0, wr)>> ELSE <<>>
        tail == IF len1 = 0 /\ "STOP" \in flags
                THEN <<Cmd("STOP", FALSE, 0, 0)>>
                ELSE <<Cmd("END", FALSE, 0, 0)>>
    IN [len |-> len1, wr_filled |-> wr, cmds |-> data \o tail]

\* The state after ESP32_I2C_INIT and i2c_esp32_init: the data structure is
\* zeroed but for the semaphores (status 0 is I2C_STATUS_READ), the
\* configuration is I2C_MODE_MASTER; the callers in `on` are there.
InitOf(pcs, cfgs, socs) ==
    /\ config \in cfgs
    /\ soc \in socs
    /\ status = "READ"
    /\ cmd_idx = 0
    /\ cmd_sem = 0
    /\ transfer_sem = 1
    /\ dev_config = {"MASTER"}
    /\ hw = HwInit
    /\ pc = pcs
    /\ op = [c \in Callers |-> "none"]
    /\ msgs = [c \in Callers |-> <<>>]
    /\ idx = [c \in Callers |-> 0]
    /\ addr = [c \in Callers |-> 0]
    /\ ret = [c \in Callers |-> "none"]
    /\ rd_filled = [c \in Callers |-> 0]
    /\ calls = [c \in Callers |-> 0]
    /\ g_orig = [c \in Callers |-> <<>>]
    /\ g_list = [c \in Callers |-> <<>>]
    /\ g_disp = [c \in Callers |-> <<>>]
    /\ g_touched = [c \in Callers |-> FALSE]
    /\ g_xfer = [c \in Callers |-> <<>>]
    /\ g_cmds = [c \in Callers |-> <<>>]
    /\ g_prev = [c \in Callers |-> "none"]
    /\ g_addr = [c \in Callers |-> [a |-> 0, ten |-> FALSE]]
    /\ g_seg = "none"
    /\ g_clean = [c \in Callers |-> TRUE]
    /\ last = NoChunk

\* An ESP32 (APB and REF_TICK clocks, no hardware FSM reset) with a bus of
\* 100 kHz.
DefaultConfig == [bitrate |-> 100000]
Esp32 == [clks |-> <<"APB", "REF_TICK">>, hw_fsm_rst |-> FALSE]

InitWith(on) ==
    InitOf([c \in Callers |-> IF c \in on THEN "idle" ELSE "off"],
           {DefaultConfig}, {Esp32})

Init == InitWith({1})

---------------------------------------------------------------------------
\* The callers

\* Between k_sem_take and k_sem_give of transfer_sem.
Holds(c) == pc[c] \in {"msg", "start", "chunk", "wait", "tmo", "next", "rreset"}

\* With one caller switched on the caller submits any list; two callers
\* submit from the short set.
Inputs == IF \E c \in Callers : pc[c] = "off" THEN SeqLists ELSE ConcLists

\* The addresses a call can name.
Targets == IF \E c \in Callers : pc[c] = "cfg" THEN WideAddrs ELSE Addrs

\* What a call submits: a first call any input; a call after a transfer the
\* same i2c_msg structures as the transfer left them, or the list built
\* again with the buffers and lengths first submitted.
MayCall(c) ==
    /\ pc[c] \in {"idle", "done"}
    /\ calls[1] + calls[2] < MaxCalls

Submits(c) ==
    IF ~MayCall(c) THEN {}
    ELSE IF calls[c] = 0 \/ op[c] # "transfer" THEN Inputs
    ELSE IF g_list[c] = <<>> THEN {msgs[c]}
    ELSE {msgs[c], g_list[c]}

\* How the caller's previous call ended.
Outcome(c) ==
    IF op[c] # "transfer" THEN "none"
    ELSE IF ret[c] = "-ETIMEDOUT" /\ last.by = c /\ last.expired /\ last.evt = "none"
    THEN "silent_timeout"
    ELSE IF /\ ret[c] = "-EFAULT" /\ last.by = c /\ last.seen = "NACK"
            /\ "READ" \notin msgs[c][idx[c]].flags
    THEN "write_nack"
    ELSE "other"

\* i2c_esp32_transfer up to the k_sem_take: no messages, or the validation.
TransferCall(c, l, a) ==
    /\ MayCall(c)
    /\ l \in Submits(c)
    /\ calls' = [calls EXCEPT ![c] = @ + 1]
    /\ op' = [op EXCEPT ![c] = "transfer"]
    /\ addr' = [addr EXCEPT ![c] = a]
    /\ g_addr' = [g_addr EXCEPT ![c] = [a |-> a, ten |-> FALSE]]
    /\ idx' = [idx EXCEPT ![c] = 1]
    /\ g_orig' = [g_orig EXCEPT ![c] = l]
    /\ g_list' = [g_list EXCEPT ![c] = <<>>]
    /\ last' = IF last.by = c THEN NoChunk ELSE last
    /\ g_disp' = [g_disp EXCEPT ![c] = <<>>]
    /\ g_touched' = [g_touched EXCEPT ![c] = FALSE]
    /\ g_xfer' = [g_xfer EXCEPT ![c] = <<>>]
    /\ g_cmds' = [g_cmds EXCEPT ![c] = <<>>]
    /\ g_prev' = [g_prev EXCEPT ![c] = Outcome(c)]
    /\ g_clean' = [g_clean EXCEPT ![c] = TRUE]
    /\ IF l = <<>>
       THEN /\ msgs' = [msgs EXCEPT ![c] = l]
            /\ ret' = [ret EXCEPT ![c] = "0"]
            /\ pc' = [pc EXCEPT ![c] = "done"]
       ELSE LET v == Validate(l)
            IN /\ msgs' = [msgs EXCEPT ![c] = v.msgs]
               /\ ret' = [ret EXCEPT ![c] = v.ret]
               /\ pc' = [pc EXCEPT ![c] = IF v.ret # "0" THEN "done" ELSE "take"]
    /\ UNCHANGED <<drvVars, hw, rd_filled, g_seg>>

\* uint16_t addr: masked to 7 or 10 bits, then shifted left by one.
normalise_addr(a, cfg) ==
    ((a % (IF "ADDR_10_BITS" \in cfg THEN 1024 ELSE 128)) * 2) % 65536

\* k_sem_take(&data->transfer_sem, K_FOREVER), then the address.
TransferTake(c) ==
    /\ pc[c] = "take"
    /\ k_sem_available(transfer_sem)
    /\ transfer_sem' = k_sem_taken(transfer_sem)
    /\ addr' = [addr EXCEPT ![c] = normalise_addr(@, dev_config)]
    /\ g_addr' = [g_addr EXCEPT ![c].ten = "ADDR_10_BITS" \in dev_config]
    /\ g_touched' = [g_touched EXCEPT ![c] = TRUE]
    /\ g_orig' = [g_orig EXCEPT ![c] = <<>>]
    /\ g_list' = [g_list EXCEPT ![c] = msgs[c]]
    /\ pc' = [pc EXCEPT ![c] = "msg"]
    /\ UNCHANGED <<status, cmd_idx, cmd_sem, dev_config, config, soc, hw, op, msgs, idx, ret,
                   rd_filled, calls, g_disp, g_xfer, g_cmds, g_prev, g_seg,
                   g_clean, last>>

\* The head of the loop over the messages: the bus recovery when the status
\* is TIMEOUT or the bus is busy.
MsgBegin(c) ==
    /\ pc[c] = "msg"
    /\ IF status = "TIMEOUT" \/ hw.bus_busy
       THEN /\ hw' = fsm_reset(hw)
            /\ last' = [last EXCEPT !.reset = TRUE]
       ELSE UNCHANGED <<hw, last>>
    /\ pc' = [pc EXCEPT ![c] = "start"]
    /\ UNCHANGED <<drvVars, op, msgs, idx, addr, ret, rd_filled, calls, histVars>>

\* The FIFOs and the interrupts are cleared and the message goes to
\* i2c_esp32_read_msg or i2c_esp32_write_msg, which run up to their loop.
MsgStart(c) ==
    /\ pc[c] = "start"
    /\ LET m == msgs[c][idx[c]]
           rd == RW(m) = {"READ"}
           a == IF rd /\ addr[c] % 2 = 0 THEN addr[c] + 1 ELSE addr[c]
           st0 == [idx |-> 0, hw |-> reset_fifo_clr_intr(hw), cmds |-> <<>>]
           st1 == IF "RESTART" \in m.flags THEN write_addr(st0, a, dev_config) ELSE st0
       IN /\ cmd_idx' = st1.idx
          /\ status' = IF rd THEN "READ" ELSE "WRITE"
          /\ hw' = st1.hw
          /\ g_cmds' = [g_cmds EXCEPT ![c] = st1.cmds]
    /\ g_disp' = [g_disp EXCEPT ![c] = Append(@, idx[c])]
    /\ g_xfer' = [g_xfer EXCEPT ![c] = <<>>]
    /\ pc' = [pc EXCEPT ![c] = "chunk"]
    /\ UNCHANGED <<cmd_sem, transfer_sem, dev_config, config, soc, op, msgs, idx, addr, ret,
                   rd_filled, calls, g_orig, g_list, g_touched, g_prev, g_addr, g_seg, g_clean, last>>

\* One turn of the loop of i2c_esp32_write_msg up to the wait in
\* i2c_esp32_transmit.
WriteChunk(c) ==
    /\ pc[c] = "chunk"
    /\ RW(msgs[c][idx[c]]) = {}
    /\ LET m == msgs[c][idx[c]]
           ch == write_chunk(m.len, m.flags)
           st0 == [idx |-> cmd_idx,
                   hw |-> [hw EXCEPT !.txfifo = @ \o Bytes(m.buf, ch.wr_filled)],
                   cmds |-> g_cmds[c]]
           st1 == write_cmds(st0, ch.cmds)
       IN /\ msgs' = [msgs EXCEPT ![c][idx[c]] =
                         [@ EXCEPT !.buf = @ + ch.wr_filled, !.len = ch.len]]
          /\ g_xfer' = [g_xfer EXCEPT ![c] = @ \o Bytes(m.buf, ch.wr_filled)]
          /\ cmd_idx' = st1.idx
          /\ hw' = trans_start(st1.hw)
          /\ g_cmds' = [g_cmds EXCEPT ![c] = st1.cmds]
    /\ last' = [NoChunk EXCEPT !.by = c]
    /\ pc' = [pc EXCEPT ![c] = "wait"]
    /\ UNCHANGED <<status, cmd_sem, transfer_sem, dev_config, config, soc, op, idx, addr, ret,
                   rd_filled, calls, g_orig, g_list, g_disp, g_touched, g_prev, g_addr, g_seg, g_clean>>

\* One turn of the loop of i2c_esp32_read_msg up to the wait in
\* i2c_esp32_transmit.
ReadChunk(c) ==
    /\ pc[c] = "chunk"
    /\ RW(msgs[c][idx[c]]) = {"READ"}
    /\ msgs[c][idx[c]].len # 0
    /\ LET m == msgs[c][idx[c]]
           ch == read_chunk(m.len)
           st1 == write_cmds([idx |-> cmd_idx, hw |-> hw, cmds |-> g_cmds[c]], ch.cmds)
       IN /\ msgs' = [msgs EXCEPT ![c][idx[c]] = [@ EXCEPT !.len = ch.len]]
          /\ rd_filled' = [rd_filled EXCEPT ![c] = ch.rd_filled]
          /\ cmd_idx' = st1.idx
          /\ hw' = trans_start(st1.hw)
          /\ g_cmds' = [g_cmds EXCEPT ![c] = st1.cmds]
    /\ last' = [NoChunk EXCEPT !.by = c]
    /\ pc' = [pc EXCEPT ![c] = "wait"]
    /\ UNCHANGED <<status, cmd_sem, transfer_sem, dev_config, config, soc, op, idx, addr, ret,
                   calls, g_orig, g_list, g_disp, g_touched, g_xfer, g_prev, g_addr, g_seg, g_clean>>

\* i2c_esp32_read_msg leaves its loop: nothing is left of the message.
ReadReturn(c) ==
    /\ pc[c] = "chunk"
    /\ RW(msgs[c][idx[c]]) = {"READ"}
    /\ msgs[c][idx[c]].len = 0
    /\ ret' = [ret EXCEPT ![c] = "0"]
    /\ pc' = [pc EXCEPT ![c] = "next"]
    /\ UNCHANGED <<drvVars, hw, op, msgs, idx, addr, rd_filled, calls, histVars, last>>

\* k_sem_take(&data->cmd_sem, K_MSEC(500)) returns 0: i2c_esp32_transmit
\* reads the status and returns, and the message loop ends its turn. The
\* status is read twice; the handler changes it only while it is READ or
\* WRITE, where both reads lead to the same result whichever one sees the
\* change.
WaitWake(c) ==
    /\ pc[c] = "wait"
    /\ k_sem_available(cmd_sem)
    /\ cmd_sem' = k_sem_taken(cmd_sem)
    /\ LET r == transmit_result(status)
           m == msgs[c][idx[c]]
           rd == RW(m) = {"READ"}
           seen == IF last.by = c /\ hw.irq = "none" THEN last.evt ELSE "none"
       IN /\ hw' = IF transmit_resets(status) THEN fsm_reset(hw) ELSE hw
          /\ last' = [last EXCEPT !.seen = seen, !.reset = @ \/ transmit_resets(status)]
          /\ g_clean' = [g_clean EXCEPT ![c] = @ /\ seen = "TRANS_DONE"]
          /\ ret' = [ret EXCEPT ![c] = r]
          /\ g_seg' = (CASE r = "0" -> "ok" [] r = "-EFAULT" -> "nack"
                         [] OTHER -> "timeout")
          /\ IF r # "0"
             THEN /\ pc' = [pc EXCEPT ![c] = "next"]
                  /\ UNCHANGED <<msgs, cmd_idx, g_xfer>>
             ELSE /\ cmd_idx' = 0
                  /\ IF rd
                     THEN /\ msgs' = [msgs EXCEPT ![c][idx[c]].buf = @ + rd_filled[c]]
                          /\ g_xfer' = [g_xfer EXCEPT ![c] = @ \o Bytes(m.buf, rd_filled[c])]
                          /\ pc' = [pc EXCEPT ![c] = "chunk"]
                     ELSE /\ UNCHANGED <<msgs, g_xfer>>
                          /\ pc' = [pc EXCEPT ![c] = IF m.len = 0 THEN "next" ELSE "chunk"]
    /\ UNCHANGED <<status, transfer_sem, dev_config, config, soc, op, idx, addr, rd_filled, calls,
                   g_orig, g_list, g_disp, g_touched, g_cmds, g_prev, g_addr>>

\* The wait ends after 500 ms with nothing given. An interrupt that is
\* pending is served before the timeout is.
WaitExpire(c) ==
    /\ pc[c] = "wait"
    /\ ~k_sem_available(cmd_sem)
    /\ hw.irq = "none"
    /\ last' = [last EXCEPT !.expired = TRUE]
    /\ g_clean' = [g_clean EXCEPT ![c] = FALSE]
    /\ pc' = [pc EXCEPT ![c] = "tmo"]
    /\ UNCHANGED <<drvVars, hw, op, msgs, idx, addr, ret, rd_filled, calls,
                   g_orig, g_list, g_disp, g_touched, g_xfer, g_cmds, g_prev, g_addr, g_seg>>

\* i2c_esp32_transmit after the wait timed out: the reset, then -ETIMEDOUT
\* up to the loop of i2c_esp32_transfer.
TimeoutReset(c) ==
    /\ pc[c] = "tmo"
    /\ hw' = fsm_reset(hw)
    /\ last' = [last EXCEPT !.reset = TRUE]
    /\ ret' = [ret EXCEPT ![c] = "-ETIMEDOUT"]
    /\ g_seg' = "timeout"
    /\ pc' = [pc EXCEPT ![c] = "next"]
    /\ UNCHANGED <<drvVars, op, msgs, idx, addr, rd_filled, calls,
                   g_orig, g_list, g_disp, g_touched, g_xfer, g_cmds, g_prev, g_clean, g_addr>>

\* The loop goes on after an error.
transfer_continues_OnError(r, i, n) == i < n

\* The loop over the messages after a message returned: it breaks on an
\* error, goes on to the next message, or ends; past the loop the
\* semaphore is given and ret returned.
transfer_continues(r, i, n) == r = "0" /\ i < n

\* The semaphore is given on success only.
sem_after_loop_OnSuccess(count, r) == IF r = "0" THEN k_sem_given(count) ELSE count

\* transfer_sem past the loop, left with ret = r: the k_sem_give is on every
\* path.
sem_after_loop(count, r) == k_sem_given(count)

MsgNext(c) ==
    /\ pc[c] = "next"
    /\ IF transfer_continues(ret[c], idx[c], Len(msgs[c]))
       THEN /\ idx' = [idx EXCEPT ![c] = @ + 1]
            /\ pc' = [pc EXCEPT ![c] = "msg"]
            /\ UNCHANGED transfer_sem
       ELSE /\ transfer_sem' = sem_after_loop(transfer_sem, ret[c])
            /\ pc' = [pc EXCEPT ![c] = "done"]
            /\ UNCHANGED idx
    /\ UNCHANGED <<status, cmd_idx, cmd_sem, dev_config, config, soc, hw, op, msgs, addr, ret,
                   rd_filled, calls, histVars, last>>

\* i2c_esp32_configure, called by a caller between its other calls or by a
\* thread that does nothing else: a mode without I2C_MODE_MASTER is refused;
\* otherwise dev_config is stored and the peripheral initialised, and the
\* bus timing is programmed when there is a bitrate. No semaphore is taken.
Configure(c, dc) ==
    /\ pc[c] \in {"idle", "done", "cfg"}
    /\ calls[1] + calls[2] < MaxCalls
    /\ calls' = [calls EXCEPT ![c] = @ + 1]
    /\ g_prev' = [g_prev EXCEPT ![c] = Outcome(c)]
    /\ op' = [op EXCEPT ![c] = "configure"]
    /\ pc' = [pc EXCEPT ![c] = IF @ = "cfg" THEN "cfg" ELSE "done"]
    /\ IF "MASTER" \notin dc
       THEN /\ ret' = [ret EXCEPT ![c] = "-ENOTSUP"]
            /\ UNCHANGED <<dev_config, hw>>
       ELSE /\ dev_config' = dc
            /\ hw' = configured(hw)
            /\ ret' = [ret EXCEPT ![c] = configure_result]
    /\ g_touched' = [g_touched EXCEPT ![c] = FALSE]
    /\ g_disp' = [g_disp EXCEPT ![c] = <<>>]
    /\ g_xfer' = [g_xfer EXCEPT ![c] = <<>>]
    /\ g_cmds' = [g_cmds EXCEPT ![c] = <<>>]
    /\ g_clean' = [g_clean EXCEPT ![c] = TRUE]
    /\ g_orig' = [g_orig EXCEPT ![c] = <<>>]
    /\ g_list' = [g_list EXCEPT ![c] = <<>>]
    /\ last' = IF last.by = c THEN NoChunk ELSE last
    /\ UNCHANGED <<status, cmd_idx, cmd_sem, transfer_sem, config, soc, msgs, idx,
                   addr, rd_filled, g_addr, g_seg>>

\* i2c_esp32_recover
RecoverCall(c) ==
    /\ MayCall(c)
    /\ calls' = [calls EXCEPT ![c] = @ + 1]
    /\ g_prev' = [g_prev EXCEPT ![c] = Outcome(c)]
    /\ op' = [op EXCEPT ![c] = "recover"]
    /\ ret' = [ret EXCEPT ![c] = "0"]
    /\ g_touched' = [g_touched EXCEPT ![c] = FALSE]
    /\ g_disp' = [g_disp EXCEPT ![c] = <<>>]
    /\ g_xfer' = [g_xfer EXCEPT ![c] = <<>>]
    /\ g_cmds' = [g_cmds EXCEPT ![c] = <<>>]
    /\ g_clean' = [g_clean EXCEPT ![c] = TRUE]
    /\ pc' = [pc EXCEPT ![c] = "rtake"]
    /\ g_orig' = [g_orig EXCEPT ![c] = <<>>]
    /\ g_list' = [g_list EXCEPT ![c] = <<>>]
    /\ last' = IF last.by = c THEN NoChunk ELSE last
    /\ UNCHANGED <<drvVars, hw, msgs, idx, addr, rd_filled, g_addr, g_seg>>

\* The recovery without the wait for the lock.
RecoverTake_NoLock(c) ==
    /\ pc[c] = "rtake"
    /\ UNCHANGED transfer_sem
    /\ g_touched' = [g_touched EXCEPT ![c] = TRUE]
    /\ pc' = [pc EXCEPT ![c] = "rreset"]
    /\ UNCHANGED <<status, cmd_idx, cmd_sem, dev_config, config, soc, hw, op, msgs, idx, addr, ret,
                   rd_filled, calls, g_orig, g_list, g_disp, g_xfer, g_cmds, g_prev, g_addr, g_seg,
                   g_clean, last>>

\* k_sem_take(&data->transfer_sem, K_FOREVER) of i2c_esp32_recover
RecoverTake(c) ==
    /\ pc[c] = "rtake"
    /\ k_sem_available(transfer_sem)
    /\ transfer_sem' = k_sem_taken(transfer_sem)
    /\ g_touched' = [g_touched EXCEPT ![c] = TRUE]
    /\ pc' = [pc EXCEPT ![c] = "rreset"]
    /\ UNCHANGED <<status, cmd_idx, cmd_sem, dev_config, config, soc, hw, op, msgs, idx, addr, ret,
                   rd_filled, calls, g_orig, g_list, g_disp, g_xfer, g_cmds, g_prev, g_addr, g_seg,
                   g_clean, last>>

RecoverReset(c) ==
    /\ pc[c] = "rreset"
    /\ hw' = fsm_reset(hw)
    /\ last' = [last EXCEPT !.reset = TRUE]
    /\ transfer_sem' = k_sem_given(transfer_sem)
    /\ pc' = [pc EXCEPT ![c] = "done"]
    /\ UNCHANGED <<status, cmd_idx, cmd_sem, dev_config, config, soc, op, msgs, idx, addr, ret,
                   rd_filled, calls, histVars>>

---------------------------------------------------------------------------
\* The peripheral and the interrupt handler

\* The peripheral raises an event for the chunk in flight, which ends it.
\* The bus is free again once a queue with a STOP has run to its end.
HwEvent(e) ==
    /\ hw.inflight
    /\ hw' = [hw EXCEPT
                !.irq = e, !.inflight = FALSE, !.txfifo = <<>>,
                !.bus_busy = ~(e = "TRANS_DONE" /\
                               \E i \in 1..Len(hw.cmdq) : hw.cmdq[i].op_code = "STOP")]
    /\ last' = [last EXCEPT !.evt = e]
    /\ UNCHANGED <<drvVars, thrVars, histVars>>

\* i2c_esp32_isr: the event is read (and cleared) by the HAL only when the
\* status is WRITE or READ; the wait semaphore is given.
Isr ==
    /\ hw.irq # "none"
    /\ LET evt_type == IF status \in {"WRITE", "READ"} THEN hw.irq ELSE "ERR"
       IN status' = isr_status(status, evt_type)
    /\ cmd_sem' = k_sem_given(cmd_sem)
    /\ hw' = [hw EXCEPT !.irq = "none"]
    /\ UNCHANGED <<cmd_idx, transfer_sem, dev_config, config, soc, thrVars, histVars, last>>

---------------------------------------------------------------------------

Next ==
    \/ \E c \in Callers, a \in Targets : \E l \in Submits(c) : TransferCall(c, l, a)
    \/ \E c \in Callers, dc \in DevConfigs : Configure(c, dc)
    \/ \E c \in Callers : TransferTake(c)
    \/ \E c \in Callers : MsgBegin(c)
    \/ \E c \in Callers : MsgStart(c)
    \/ \E c \in Callers : WriteChunk(c)
    \/ \E c \in Callers : ReadChunk(c)
    \/ \E c \in Callers : ReadReturn(c)
    \/ \E c \in Callers : WaitWake(c)
    \/ \E c \in Callers : WaitExpire(c)
    \/ \E c \in Callers : TimeoutReset(c)
    \/ \E c \in Callers : MsgNext(c)
    \/ \E c \in Callers : RecoverCall(c)
    \/ \E c \in Callers : RecoverTake(c)
    \/ \E c \in Callers : RecoverReset(c)
    \/ \E e \in HwEvents : HwEvent(e)
    \/ Isr

\* One caller.
Spec == Init /\ [][Next]_vars

\* Two callers at once.
InitConc == InitWith(Callers)

SpecConc == InitConc /\ [][Next]_vars

\* One caller next to a thread that configures, on every SoC and bitrate.
InitCfg == InitOf([c \in Callers |-> IF c = 1 THEN "idle" ELSE "cfg"], Configs, Socs)

SpecCfg == InitCfg /\ [][Next]_vars

---------------------------------------------------------------------------
\* The claims

\* A list the validation has to reject: a STOP before the last message, or a
\* change of direction onto a message without RESTART.
BadSeq(l) ==
    \/ \E i \in 1..(Len(l) - 1) : "STOP" \in l[i].flags
    \/ \E i \in 1..(Len(l) - 1) :
          RW(l[i]) # RW(l[i + 1]) /\ "RESTART" \notin l[i + 1].flags

\* C1: a non-empty list is rejected with -EINVAL exactly when a message
\* before the last carries STOP or a change of direction lacks RESTART on
\* the second message; every other list goes on to take the lock. In
\* particular [Write, Read] is rejected and [Write, Read + RESTART] is not.
C1_Validation ==
    \A c \in Callers :
        g_orig[c] # <<>> =>
            /\ (ret[c] = "-EINVAL") <=> BadSeq(g_orig[c])
            /\ pc[c] = (IF BadSeq(g_orig[c]) THEN "done" ELSE "take")
            /\ (Len(g_orig[c]) = 2 /\ g_orig[c][1].flags = {}) =>
                   /\ g_orig[c][2].flags = {"READ"} => ret[c] = "-EINVAL"
                   /\ g_orig[c][2].flags = {"READ", "RESTART"} => pc[c] = "take"

\* C1: [Write, Read without RESTART] was submitted and rejected.
C1_Witness ==
    \E c \in Callers :
        /\ Len(g_orig[c]) = 2
        /\ g_orig[c][1].flags = {} /\ g_orig[c][2].flags = {"READ"}
        /\ pc[c] = "done" /\ ret[c] = "-EINVAL"

\* C2: a first call that is rejected has changed nothing: the controller
\* and the peripheral are as initialised, the lock was not taken and the
\* caller's messages are as submitted.
C2_RejectNoSideEffects ==
    \A c \in Callers :
        (pc[c] = "done" /\ op[c] = "transfer" /\ ret[c] = "-EINVAL"
            /\ calls[1] + calls[2] = 1) =>
            /\ ~g_touched[c] /\ transfer_sem = 1 /\ hw = HwInit
            /\ status = "READ" /\ cmd_idx = 0
            /\ msgs[c] = g_orig[c]

\* C3: the count of transfer_sem is 0 or 1, at most one caller is between
\* its take and its give, and a caller's step that touches the peripheral,
\* the status or the command index is taken while no other caller is
\* between taking the lock and returning.
C3_MutualExclusion ==
    /\ [](/\ transfer_sem \in {0, 1}
          /\ Cardinality({c \in Callers : Holds(c)}) <= 1
          /\ (transfer_sem = 0) <=> (\E c \in Callers : Holds(c)))
    /\ [][\A c \in Callers :
            (pc'[c] # pc[c] /\ op'[c] # "configure"
                /\ (hw' # hw \/ status' # status \/ cmd_idx' # cmd_idx))
                => \A d \in Callers \ {c} : ~g_touched[d] \/ pc[d] = "done"]_vars

\* C3: one caller waits for its chunk, the other for the lock.
C3_Witness ==
    \E c \in Callers, d \in Callers :
        c # d /\ pc[c] = "wait" /\ pc[d] = "take" /\ op[c] = "transfer"

\* C4: the messages are dispatched in submission order; after a message
\* failed no further message is dispatched and the call returns that
\* error; once a call that took the lock has returned, the lock is free.
C4_OrderAndRelease ==
    /\ [](\A c \in Callers :
            /\ g_disp[c] = [i \in 1..Len(g_disp[c]) |-> i]
            /\ (pc[c] \in {"chunk", "wait", "tmo", "next"}) => Len(g_disp[c]) = idx[c]
            /\ (pc[c] = "done" /\ op[c] = "transfer" /\ g_touched[c]) =>
                  /\ transfer_sem = 1
                  /\ Len(g_disp[c]) = idx[c]
                  /\ ret[c] = "0" => idx[c] = Len(msgs[c]))
    /\ [][\A c \in Callers :
            (pc[c] = "next" /\ ret[c] # "0" /\ pc'[c] # pc[c]) =>
                pc'[c] = "done" /\ ret'[c] = ret[c] /\ g_disp'[c] = g_disp[c]]_vars

\* C4: the first of several messages failed and the call has returned.
C4_Witness ==
    \E c \in Callers :
        /\ pc[c] = "done" /\ op[c] = "transfer" /\ ret[c] = "-EFAULT"
        /\ Len(msgs[c]) = 3 /\ g_disp[c] = <<1>> /\ transfer_sem = 1

\* C5: when a transfer ends with -ETIMEDOUT the FSM was reset after the
\* failing chunk was started.
C5_TimeoutAfterReset ==
    \A c \in Callers :
        (pc[c] \in {"next", "done"} /\ op[c] = "transfer" /\ ret[c] = "-ETIMEDOUT") =>
            last.by = c /\ last.reset

\* C5: -ETIMEDOUT was returned for an arbitration loss the handler recorded.
C5_Witness ==
    \E c \in Callers :
        /\ pc[c] = "done" /\ ret[c] = "-ETIMEDOUT"
        /\ last.by = c /\ last.evt = "ARBIT_LOST" /\ ~last.expired /\ last.reset

C7_NackGivesEfault ==
    \A c \in Callers :
        (pc[c] \in {"chunk", "next"} /\ op[c] = "transfer" /\ last.by = c
            /\ last.seen = "NACK") =>
            pc[c] = "next" /\ ret[c] = "-EFAULT" /\ ~last.reset

\* C8: a write that failed with -EFAULT on a NACK returns with the lock
\* released, the wait semaphore empty and no reset done; the same message
\* submitted again, with no recovery in between and every chunk answered
\* with a transfer-complete interrupt, returns 0.
C8_RetryAfterNack ==
    \A c \in Callers :
        /\ (pc[c] = "done" /\ Outcome(c) = "write_nack") =>
               /\ transfer_sem = 1 /\ cmd_sem = 0
               /\ status = "ACK_ERROR" /\ ~last.reset
        /\ (pc[c] = "done" /\ op[c] = "transfer" /\ g_prev[c] = "write_nack"
               /\ g_clean[c]) => ret[c] = "0" /\ transfer_sem = 1

\* C8: the retry of a write that was NACKed has run a chunk and returned 0.
C8_Witness ==
    \E c \in Callers :
        /\ pc[c] = "done" /\ op[c] = "transfer" /\ g_prev[c] = "write_nack"
        /\ g_clean[c] /\ ret[c] = "0"
        /\ msgs[c] # <<>> /\ g_xfer[c] # <<>>
        /\ last.by = c /\ last.evt = "TRANS_DONE"

\* C9: when a message has returned 0 the bytes moved by its chunks are the
\* bytes of its buffer, each once and in order, as many as its length; the
\* cursor is at the end of the buffer and the remaining length is 0.
C9_ChunksCoverMessage ==
    \A c \in Callers :
        (pc[c] = "next" /\ op[c] = "transfer" /\ ret[c] = "0") =>
            LET m0 == g_list[c][idx[c]]
                m == msgs[c][idx[c]]
            IN /\ g_xfer[c] = Bytes(m0.buf, m0.len)
               /\ Len(g_xfer[c]) = m0.len
               /\ m.buf = m0.buf + m0.len
               /\ m.len = 0

\* C9: a read and a write longer than the FIFO have returned 0.
C9_Witness ==
    \E c \in Callers :
        /\ pc[c] = "next" /\ ret[c] = "0" /\ Len(msgs[c]) = 2 /\ idx[c] = 2
        /\ RW(msgs[c][1]) # RW(msgs[c][2])
        /\ g_list[c][1].len > SOC_I2C_FIFO_LEN
        /\ g_list[c][2].len = 1
        /\ g_xfer[c] = Bytes(g_list[c][2].buf, 1)

\* The READ commands queued so far for the message of caller c.
ReadCmds(c) == SelectSeq(g_cmds[c], LAMBDA k : k.op_code = "READ")

RECURSIVE SumBytes(_)
SumBytes(q) == IF q = <<>> THEN 0 ELSE Head(q).byte_num + SumBytes(Tail(q))

\* C10: among the READ commands of a read message only the last can answer
\* NACK, and it reads one byte; the commands queued read as many bytes as
\* the chunks have taken from the length; once the length of a message of
\* at least one byte is used up, the last READ command answers NACK.
C10_LastByteNacked ==
    \A c \in Callers :
        (pc[c] \in {"chunk", "wait", "tmo", "next"} /\ op[c] = "transfer"
            /\ RW(msgs[c][idx[c]]) = {"READ"}) =>
            LET q == ReadCmds(c)
                m0 == g_list[c][idx[c]]
                m == msgs[c][idx[c]]
            IN /\ \A i \in 1..Len(q) :
                      q[i].ack_val = 1 => i = Len(q) /\ q[i].byte_num = 1
               /\ SumBytes(q) = m0.len - m.len
               /\ (m0.len >= 1 /\ m.len = 0) =>
                      /\ q # <<>>
                      /\ q[Len(q)].ack_val = 1 /\ q[Len(q)].byte_num = 1
                      /\ \A i \in 1..(Len(q) - 1) : q[i].ack_val = 0

\* C10: a read of one byte more than the FIFO holds waits for its only
\* chunk: a READ of the FIFO length that answers ACK, then the READ of the
\* last byte that answers NACK.
C10_Witness ==
    \E c \in Callers :
        /\ pc[c] = "wait" /\ RW(msgs[c][idx[c]]) = {"READ"}
        /\ g_list[c][idx[c]].len = SOC_I2C_FIFO_LEN + 1
        /\ msgs[c][idx[c]].len = 0
        /\ Len(ReadCmds(c)) = 2
        /\ ReadCmds(c)[1].byte_num = SOC_I2C_FIFO_LEN /\ ReadCmds(c)[1].ack_val = 0
        /\ ReadCmds(c)[2].byte_num = 1 /\ ReadCmds(c)[2].ack_val = 1

\* Whether a STOP command is among the commands q.
HasStop(q) == \E i \in 1..Len(q) : q[i].op_code = "STOP"

\* C11: when a chunk has used up the length of its message, a STOP command
\* is queued for the message exactly when the message carries the STOP
\* flag; without the flag the last command queued is an END.
C11_StopOnlyWhenFlagged ==
    \A c \in Callers :
        (pc[c] = "wait" /\ op[c] = "transfer" /\ msgs[c][idx[c]].len = 0) =>
            /\ HasStop(g_cmds[c]) <=> "STOP" \in msgs[c][idx[c]].flags
            /\ "STOP" \notin msgs[c][idx[c]].flags =>
                   g_cmds[c][Len(g_cmds[c])].op_code = "END"

\* C12: a list that was accepted differs from the list submitted in the
\* RESTART flag of the first message and the STOP flag of the last only,
\* which are both set; no step of the transfer changes a flag afterwards;
\* the commands of the first message begin with a RESTART and the WRITE of
\* the address, and the last message has the STOP flag when its length is
\* used up.
C12_ImplicitRestartStop ==
    /\ [](\A c \in Callers :
            /\ (pc[c] = "take" /\ g_orig[c] # <<>>) =>
                  LET o == g_orig[c]
                      n == Len(o)
                  IN /\ Len(msgs[c]) = n
                     /\ \A i \in 1..n :
                           /\ msgs[c][i].len = o[i].len /\ msgs[c][i].buf = o[i].buf
                           /\ msgs[c][i].flags =
                                 o[i].flags \cup (IF i = 1 THEN {"RESTART"} ELSE {})
                                            \cup (IF i = n THEN {"STOP"} ELSE {})
            /\ (pc[c] \in {"chunk", "wait", "tmo", "next"} /\ op[c] = "transfer"
                   /\ idx[c] = 1) =>
                  /\ Len(g_cmds[c]) >= 2
                  /\ g_cmds[c][1].op_code = "RESTART"
                  /\ g_cmds[c][2] = Cmd("WRITE", TRUE, 0,
                                        IF "ADDR_10_BITS" \in dev_config THEN 2 ELSE 1)
            /\ (pc[c] \in {"chunk", "wait", "tmo", "next"} /\ op[c] = "transfer"
                   /\ idx[c] = Len(msgs[c])) => "STOP" \in msgs[c][idx[c]].flags)
    /\ [][\A c \in Callers :
            (pc[c] \notin {"idle", "done", "off"} /\ op[c] = "transfer") =>
                /\ Len(msgs'[c]) = Len(msgs[c])
                /\ \A i \in 1..Len(msgs[c]) : msgs'[c][i].flags = msgs[c][i].flags]_vars

\* C12: a single message submitted without a flag has been accepted with
\* RESTART and STOP set and waits for its chunk: RESTART, the address, the
\* data, STOP.
C12_Witness ==
    \E c \in Callers :
        /\ pc[c] = "wait" /\ op[c] = "transfer" /\ Len(msgs[c]) = 1
        /\ msgs[c][1].flags = {"RESTART", "STOP"}
        /\ Len(g_cmds[c]) = 4
        /\ g_cmds[c][1].op_code = "RESTART" /\ g_cmds[c][4].op_code = "STOP"

\* C13: when a message of at most SOC_I2C_FIFO_LEN bytes has returned, the
\* peripheral was started exactly once for it (each start is followed by
\* the one wait of i2c_esp32_transmit).
C13_OneStartPerShortMessage ==
    \A c \in Callers :
        (pc[c] = "next" /\ op[c] = "transfer"
            /\ g_list[c][idx[c]].len <= SOC_I2C_FIFO_LEN) => hw.starts = 1

\* The address on the wire for the target address a, with 10 or 7 bits, for
\* a read or a write, and its bytes in the order of the wire.
WireAddr(a, ten, rd) ==
    (a % (IF ten THEN 1024 ELSE 128)) * 2 + (IF rd THEN 1 ELSE 0)

WireBytes(w, ten) ==
    IF ten THEN <<[kind |-> "addr", at |-> w % 256],
                  [kind |-> "addr", at |-> (w \div 256) % 256]>>
    ELSE <<[kind |-> "addr", at |-> w % 256]>>

\* C14: the address is cut to 7 or 10 bits by the mode and shifted by one,
\* and what is queued for a message with RESTART are the bytes of that
\* address with the direction in bit 0, the low byte first, the high byte
\* in 10-bit mode only, in the mode the address was cut with.
C14_WireAddress ==
    [][\A c \in Callers :
          /\ (pc[c] = "take" /\ pc'[c] = "msg") =>
                addr'[c] = WireAddr(g_addr'[c].a, g_addr'[c].ten, FALSE)
          /\ (pc[c] = "start" /\ pc'[c] = "chunk"
                 /\ "RESTART" \in msgs[c][idx[c]].flags) =>
                hw'.txfifo = WireBytes(WireAddr(g_addr[c].a, g_addr[c].ten,
                                                RW(msgs[c][idx[c]]) = {"READ"}),
                                       g_addr[c].ten)]_vars

\* C15: a step that resets the FSM is a step of a caller that holds
\* transfer_sem, taken while no other caller has a chunk started and not
\* yet returned from; and a recovery gets past its k_sem_take only when no
\* other caller is between its take and its give.
C15_ResetUnderLock ==
    /\ [][hw'.resets # hw.resets =>
            \E c \in Callers :
                /\ pc'[c] # pc[c] /\ Holds(c) /\ transfer_sem = 0
                /\ \A d \in Callers \ {c} : ~Holds(d)]_vars
    /\ [][\A c \in Callers :
            (pc[c] = "rtake" /\ pc'[c] = "rreset") =>
                \A d \in Callers \ {c} : ~Holds(d)]_vars

\* C15: a recovery waits for the lock while the transfer of the other
\* caller waits for its chunk.
C15_Witness ==
    \E c \in Callers, d \in Callers :
        /\ c # d /\ op[c] = "recover" /\ pc[c] = "rtake"
        /\ op[d] = "transfer" /\ pc[d] = "wait" /\ hw.inflight
        /\ transfer_sem = 0

\* C16: a step that resets the FSM leaves every timing register, the
\* timeout and the filter as they were before it; nothing but
\* i2c_esp32_configure changes them, so a second recovery leaves what the
\* first one left.
C16_ResetKeepsTiming ==
    /\ [][hw'.resets # hw.resets => hw'.timing = hw.timing]_vars
    /\ [][hw'.timing # hw.timing =>
            \E c \in Callers : op'[c] = "configure" /\ calls'[c] # calls[c]]_vars

\* C16: two recoveries have run one after the other on a SoC without a
\* hardware FSM reset, and the timing programmed at the initialisation is
\* there.
C16_Witness ==
    /\ ~soc.hw_fsm_rst /\ config.bitrate = 100000
    /\ op[1] = "recover" /\ pc[1] = "done" /\ calls[1] = 2 /\ hw.resets = 0
    /\ hw.timing = [scl |-> <<"scl", 100000, i2c_get_clk_src(100000)>>,
                    start |-> <<"start", 100000, i2c_get_clk_src(100000)>>,
                    stop |-> <<"stop", 100000, i2c_get_clk_src(100000)>>,
                    sda |-> <<"sda", 100000, i2c_get_clk_src(100000)>>,
                    tout |-> <<"tout", 100000, i2c_get_clk_src(100000)>>,
                    filter |-> <<"filter", I2C_FILTER_CYC_NUM_DEF>>]

\* The clock sources of the SoC that cover the bus frequency f, and the
\* slowest of them.
Covering(f) == {k \in 1..Len(soc.clks) : f <= i2c_clk_alloc(soc.clks[k])}

Slowest(f) ==
    soc.clks[CHOOSE k \in Covering(f) :
                \A j \in Covering(f) : i2c_clk_alloc(soc.clks[k]) <= i2c_clk_alloc(soc.clks[j])]

StatusFor(evt, s) ==
    CASE evt = "NACK" -> "ACK_ERROR"
      [] evt \in {"TOUT", "ARBIT_LOST"} -> "TIMEOUT"
      [] evt = "TRANS_DONE" -> "DONE"
      [] OTHER -> s

\* C18: each run of the handler leaves the status that belongs to the event
\* the peripheral raised (unchanged for any other event) and gives cmd_sem
\* once, up to its limit of 1; the count of cmd_sem never exceeds 1.
C18_IsrMapsEvent ==
    /\ [][(hw.irq # "none" /\ hw'.irq = "none" /\ UNCHANGED thrVars) =>
            /\ status' = StatusFor(hw.irq, status)
            /\ cmd_sem' = (IF cmd_sem < 1 THEN cmd_sem + 1 ELSE 1)]_vars
    /\ [](cmd_sem \in {0, 1})


\* C19: before every message that i2c_esp32_transfer starts, the FSM reset
\* runs exactly when the message run last on the controller ended in a
\* timeout (its wait expired, or the handler reported a timeout or a lost
\* arbitration) or the bus is busy; and in every case, when the first
\* command of the message is queued the transmit FIFO holds nothing but the
\* address bytes of this message and no interrupt is pending.
C19_ResetBeforeSegment ==
    /\ [][\A c \in Callers :
            (pc[c] = "msg" /\ pc'[c] = "start") =>
                ((hw'.resets # hw.resets) <=> (g_seg = "timeout" \/ hw.bus_busy))]_vars
    /\ [][\A c \in Callers :
            (pc[c] = "start" /\ pc'[c] = "chunk") =>
                /\ hw'.irq = "none"
                /\ Len(hw'.txfifo) =
                     (IF "RESTART" \notin msgs[c][idx[c]].flags THEN 0
                      ELSE IF "ADDR_10_BITS" \in dev_config THEN 2 ELSE 1)]_vars


\* The data bytes in a transmit FIFO
DataBytes(f) == SelectSeq(f, LAMBDA b : b.kind = "data")

\* C20: in every chunk the data bytes handled are at most
\* SOC_I2C_FIFO_LEN: while the caller waits for the hardware in a read, the
\* bytes asked for by the READ commands of the chunk and the bytes to be
\* drained from the receive FIFO; in a write, the data bytes the chunk pushes
\* into the transmit FIFO.
C20_ChunkFitsFifo ==
    /\ [](\A c \in Callers :
            (pc[c] = "wait" /\ RW(g_list[c][idx[c]]) = {"READ"}) =>
                /\ rd_filled[c] <= SOC_I2C_FIFO_LEN
                /\ SumBytes(SelectSeq(hw.cmdq, LAMBDA k : k.op_code = "READ"))
                       <= SOC_I2C_FIFO_LEN)
    /\ [][\A c \in Callers :
            (pc[c] = "chunk" /\ pc'[c] = "wait" /\ RW(g_list[c][idx[c]]) = {}) =>
                Len(DataBytes(hw'.txfifo)) - Len(DataBytes(hw.txfifo))
                    <= SOC_I2C_FIFO_LEN]_vars


\* C21: when i2c_esp32_transmit returns 0 for a chunk, the handler has
\* served a transfer-complete event raised for that chunk after its start
\* and status is DONE; and whenever a chunk is started the wait semaphore
\* is empty.
C21_SuccessNeedsDone ==
    /\ [][\A c \in Callers :
            (pc[c] = "wait" /\ pc'[c] \in {"chunk", "next"} /\ ret'[c] = "0") =>
                /\ status = "DONE"
                /\ last.by = c /\ last.evt = "TRANS_DONE"
                /\ last'.seen = "TRANS_DONE"]_vars
    /\ [][\A c \in Callers :
            (pc[c] = "chunk" /\ pc'[c] = "wait") => cmd_sem = 0]_vars


\* C22: in a transfer of two or more messages in which every chunk so far
\* was answered with a transfer-complete event, the FSM reset does not run
\* at the head of the loop before the second or a later message, whether or
\* not the message before ended with END and left the bus held.
C22_NoResetInsideTransaction ==
    [][\A c \in Callers :
         (pc[c] = "msg" /\ pc'[c] = "start" /\ idx[c] > 1 /\ g_clean[c]) =>
             hw'.resets = hw.resets]_vars


\* C23: while a transfer holds transfer_sem, from the address normalisation
\* to the release, no step changes dev_config and no configure call changes
\* the peripheral.
C23_ConfigStableUnderLock ==
    [][(\E c \in Callers : Holds(c) /\ op[c] = "transfer") =>
          /\ dev_config' = dev_config
          /\ \A d \in Callers :
                (calls'[d] # calls[d] /\ op'[d] = "configure") => hw' = hw]_vars


\* C24: when i2c_esp32_transfer has returned -EFAULT or -ETIMEDOUT, the
\* buffer pointer and the length of every message of the caller's list are
\* those of the list as it was submitted.
C24_MessagesIntactAfterError ==
    \A c \in Callers :
        (pc[c] = "done" /\ op[c] = "transfer" /\ ret[c] \in {"-EFAULT", "-ETIMEDOUT"}) =>
            /\ Len(msgs[c]) = Len(g_list[c])
            /\ \A i \in 1..Len(msgs[c]) :
                  /\ msgs[c][i].buf = g_list[c][i].buf
                  /\ msgs[c][i].len = g_list[c][i].len

=============================================================================
